---- MODULE Spec2Model ----
\* FileIndexManager (src/src/FileIndexManager.js): named file indexes that are
\* rebuilt lazily from the project tree when a dirty flag is set.
\*
\* The directory walk is asynchronous: readEntries() returns at once and its
\* success or error callback is delivered later, so every outstanding
\* enumeration is a piece of state (pending) and every callback is an action.
EXTENDS Integers, Sequences, FiniteSets, TLC

VARIABLES
    indexList,        \* _indexList: index name -> [filterFunction, fileInfos]
    indexListDirty,   \* _indexListDirty
    projectRoot,      \* what ProjectManager.getProjectRoot() returns now
    pending,          \* readEntries() calls whose callback is not yet delivered
    dialogs,          \* number of _showMaxFilesDialog() calls so far
    syncs,            \* number of rebuilds syncFileIndex has started (history)
    unreadable,       \* directories whose enumeration reports an error
    lastCall          \* the last operation, its arguments and its outcome (history)

vars == <<indexList, indexListDirty, projectRoot, pending, dialogs, syncs,
          unreadable, lastCall>>

----------------------------------------------------------------------------
\* Bounds of the model.

\* Rebuilds that may be started in one behaviour.
MaxSyncs == 2

\* The ceiling of line 139 (10000 in the source), scaled to the model's trees.
MaxFiles == 1

----------------------------------------------------------------------------
\* JavaScript values the code relies on.

\* A value a numeric parameter can hold: undefined, NaN or a number.
Undefined == [t |-> "undefined"]
NaN == [t |-> "NaN"]
Number(n) == [t |-> "number", v |-> n]

\* null, where a directory entry is expected.
NoRoot == "null"

Max(a, b) == IF a > b THEN a ELSE b
Min(a, b) == IF a < b THEN a ELSE b

\* a > b on JS numbers: false when a is undefined or NaN.
GreaterThan(a, b) == a.t = "number" /\ a.v > b

\* a++ on a JS value: undefined and NaN both give NaN.
Increment(a) == IF a.t = "number" THEN Number(a.v + 1) ELSE NaN

\* String.prototype.slice(start, end) on a string held as a sequence of
\* characters: a negative index counts from the end, both are clamped.
Slice(s, start, end) ==
    LET len  == Len(s)
        from == IF start < 0 THEN Max(len + start, 0) ELSE Min(start, len)
        to   == IF end < 0 THEN Max(len + end, 0) ELSE Min(end, len)
    IN  IF from >= to THEN <<>> ELSE SubSeq(s, from + 1, to)

----------------------------------------------------------------------------
\* The file system the walk reads: two project trees.
\*   /A           [ d/ , x.css ]
\*   /A/d         [ x.css , m.js ]
\*   /B           [ css , r.CSS , k/ ]
\*   /B/k         [ ]

NameXCss == <<"x", ".", "c", "s", "s">>
NameMJs  == <<"m", ".", "j", "s">>
NameRCSS == <<"r", ".", "C", "S", "S">>
NameCss  == <<"c", "s", "s">>
NameD    == <<"d">>
NameK    == <<"k">>

FileEntry(name, fullPath) ==
    [name |-> name, fullPath |-> fullPath, isFile |-> TRUE, isDirectory |-> FALSE]

DirEntry(name, fullPath) ==
    [name |-> name, fullPath |-> fullPath, isFile |-> FALSE, isDirectory |-> TRUE]

Roots == {"/A", "/B"}

\* The listing readEntries delivers for a directory, in listing order.
Children(dir) ==
    CASE dir = "/A"   -> << DirEntry(NameD, "/A/d"),
                            FileEntry(NameXCss, "/A/x.css") >>
      [] dir = "/A/d" -> << FileEntry(NameXCss, "/A/d/x.css"),
                            FileEntry(NameMJs, "/A/d/m.js") >>
      [] dir = "/B"   -> << FileEntry(NameCss, "/B/css"),
                            FileEntry(NameRCSS, "/B/r.CSS"),
                            DirEntry(NameK, "/B/k") >>
      [] OTHER        -> << >>

----------------------------------------------------------------------------
\* Filter functions, as values that can be stored in an index.

AllFilter == "function all"
CssFilter == "function css"
NotAFunction == "not a function"

\* What a caller of _addIndex passes as filterFunction.
FilterValues == {CssFilter, NotAFunction}

IsFunction(f) == f \in {AllFilter, CssFilter}

\* Lines 268-270 and 275-278: the two filter functions of the module.
ApplyFilter(f, entry) ==
    IF f = CssFilter
    THEN Slice(entry.name, Len(entry.name) - 4, Len(entry.name))
            = <<".", "c", "s", "s">>
    ELSE TRUE

IndexNames == {"all", "css", "extra"}

\* new FileIndex(indexName, filterFunction)
FileIndex(indexName, filterFunction) ==
    [name |-> indexName, fileInfos |-> <<>>, filterFunction |-> filterFunction]

\* new FileInfo(entry)
FileInfo(entry) == [name |-> entry.name, fullPath |-> entry.fullPath]

----------------------------------------------------------------------------
\* The module's functions, each from a state s =
\*   [indexList, dirty, pending, dialogs, syncs]  to the state it leaves.

Cur ==
    [indexList |-> indexList, dirty |-> indexListDirty, pending |-> pending,
     dialogs |-> dialogs, syncs |-> syncs]

Commit(s) ==
    /\ indexList' = s.indexList
    /\ indexListDirty' = s.dirty
    /\ pending' = s.pending
    /\ dialogs' = s.dialogs
    /\ syncs' = s.syncs

\* _addIndex with its two checks in the other order.
_addIndexChecksFilterFirst(s, indexName, filterFunction) ==
    IF ~IsFunction(filterFunction)
    THEN [s |-> s, outcome |-> "Invalid arguments"]
    ELSE IF indexName \in DOMAIN s.indexList
    THEN [s |-> s, outcome |-> "Duplicate index name"]
    ELSE [s |-> [s EXCEPT
                   !.indexList = [n \in DOMAIN s.indexList \cup {indexName} |->
                                    IF n = indexName
                                    THEN [name |-> indexName, fileInfos |-> <<>>,
                                          filterFunction |-> filterFunction]
                                    ELSE s.indexList[n]],
                   !.dirty = TRUE],
          outcome |-> "ok"]

\* _addIndex without the _indexListDirty = true of line 88.
_addIndexLeavesClean(s, indexName, filterFunction) ==
    IF indexName \in DOMAIN s.indexList
    THEN [s |-> s, outcome |-> "Duplicate index name"]
    ELSE IF ~IsFunction(filterFunction)
    THEN [s |-> s, outcome |-> "Invalid arguments"]
    ELSE [s |-> [s EXCEPT
                   !.indexList = [n \in DOMAIN s.indexList \cup {indexName} |->
                                    IF n = indexName
                                    THEN [name |-> indexName, fileInfos |-> <<>>,
                                          filterFunction |-> filterFunction]
                                    ELSE s.indexList[n]]],
          outcome |-> "ok"]

\* _addIndex: [s, outcome]
_addIndex(s, indexName, filterFunction) ==
    IF indexName \in DOMAIN s.indexList
    THEN [s |-> s, outcome |-> "Duplicate index name"]
    ELSE IF ~IsFunction(filterFunction)
    THEN [s |-> s, outcome |-> "Invalid arguments"]
    ELSE [s |-> [s EXCEPT
                   !.indexList = [n \in DOMAIN s.indexList \cup {indexName} |->
                                    IF n = indexName
                                    THEN FileIndex(indexName, filterFunction)
                                    ELSE s.indexList[n]],
                   !.dirty = TRUE],
          outcome |-> "ok"]

\* _addFileToIndexes without the filterFunction test of line 107.
_addFileToIndexesUnfiltered(s, entry) ==
    [s EXCEPT !.indexList = [n \in DOMAIN s.indexList |->
                               [s.indexList[n] EXCEPT
                                  !.fileInfos = Append(@, [name |-> entry.name,
                                                           fullPath |-> entry.fullPath])]]]

\* _addFileToIndexes
_addFileToIndexes(s, entry) ==
    LET fileInfo == FileInfo(entry)
        filterAndAdd(index) ==
            IF ApplyFilter(index.filterFunction, entry)
            THEN [index EXCEPT !.fileInfos = Append(@, fileInfo)]
            ELSE index
    IN  [s EXCEPT !.indexList = [n \in DOMAIN s.indexList |->
                                   filterAndAdd(s.indexList[n])]]

\* _showMaxFilesDialog
_showMaxFilesDialog(s) == [s EXCEPT !.dialogs = @ + 1]

\* _scanDirectoryRecurse without the null test of lines 135-137.
_scanDirectoryRecurseNoNullTest(s, dirEntry, fileCount, cycle) ==
    IF GreaterThan(fileCount, MaxFiles)
    THEN [s EXCEPT !.dialogs = @ + 1]
    ELSE [s EXCEPT !.pending = @ \cup {[dir |-> dirEntry, cycle |-> cycle,
                                        fileCount |-> fileCount]}]

\* _scanDirectoryRecurse up to its readEntries call: the enumeration is
\* requested and the function returns. The request keeps the closure's
\* fileCount; cycle tags it with the rebuild it belongs to.
_scanDirectoryRecurse(s, dirEntry, fileCount, cycle) ==
    IF dirEntry = NoRoot
    THEN s
    ELSE IF GreaterThan(fileCount, MaxFiles)
    THEN _showMaxFilesDialog(s)
    ELSE [s EXCEPT !.pending = @ \cup {[dir |-> dirEntry, cycle |-> cycle,
                                        fileCount |-> fileCount]}]

\* The forEach of the success callback without the isDirectory branch.
RECURSIVE forEachEntryFilesOnly(_, _, _, _)
forEachEntryFilesOnly(w, entries, i, cycle) ==
    IF i > Len(entries)
    THEN w
    ELSE forEachEntryFilesOnly(
             IF entries[i].isFile
             THEN [s |-> [w.s EXCEPT !.indexList =
                            [n \in DOMAIN w.s.indexList |->
                               IF ApplyFilter(w.s.indexList[n].filterFunction, entries[i])
                               THEN [w.s.indexList[n] EXCEPT
                                       !.fileInfos = Append(@,
                                          [name |-> entries[i].name,
                                           fullPath |-> entries[i].fullPath])]
                               ELSE w.s.indexList[n]]],
                   fileCount |-> Increment(w.fileCount)]
             ELSE w,
             entries, i + 1, cycle)

\* The entries.forEach of the success callback (lines 148-156), from entry i.
\* w = [s, fileCount]: fileCount is the closure's own parameter.
RECURSIVE forEachEntry(_, _, _, _)
forEachEntry(w, entries, i, cycle) ==
    IF i > Len(entries)
    THEN w
    ELSE LET entry == entries[i]
             w1 == IF entry.isFile
                   THEN [s |-> _addFileToIndexes(w.s, entry),
                         fileCount |-> Increment(w.fileCount)]
                   ELSE IF entry.isDirectory
                   THEN [w EXCEPT !.s = _scanDirectoryRecurse(
                                           w.s, entry.fullPath, Undefined, cycle)]
                   ELSE w
         IN  forEachEntry(w1, entries, i + 1, cycle)

\* _clearIndexes that empties the list of index "all" alone.
_clearIndexesAllOnly(s) ==
    [s EXCEPT !.indexList = [n \in DOMAIN s.indexList |->
                               IF n = "all"
                               THEN [s.indexList[n] EXCEPT !.fileInfos = <<>>]
                               ELSE s.indexList[n]]]

\* _clearIndexes
_clearIndexes(s) ==
    [s EXCEPT !.indexList = [n \in DOMAIN s.indexList |->
                               [s.indexList[n] EXCEPT !.fileInfos = <<>>]]]

\* markDirty that also empties the lists.
markDirtyAndClear(s) ==
    [s EXCEPT !.dirty = TRUE,
              !.indexList = [n \in DOMAIN s.indexList |->
                               [s.indexList[n] EXCEPT !.fileInfos = <<>>]]]

\* markDirty
markDirty(s) == [s EXCEPT !.dirty = TRUE]

\* syncFileIndex that empties the lists before it tests the dirty flag.
syncFileIndexClearsFirst(s, root) ==
    LET cleared == [s EXCEPT !.indexList = [n \in DOMAIN s.indexList |->
                               [s.indexList[n] EXCEPT !.fileInfos = <<>>]]]
    IN  IF s.dirty
        THEN [cleared EXCEPT
                !.syncs = @ + 1,
                !.pending = IF root = NoRoot
                            THEN @
                            ELSE @ \cup {[dir |-> root, cycle |-> s.syncs + 1,
                                          fileCount |-> Undefined]},
                !.dirty = FALSE]
        ELSE cleared

\* syncFileIndex; root is what ProjectManager.getProjectRoot() returns.
syncFileIndex(s, root) ==
    IF s.dirty
    THEN LET cleared == _clearIndexes(s)
             started == [cleared EXCEPT !.syncs = @ + 1]
             scanned == _scanDirectoryRecurse(started, root, Undefined, started.syncs)
         IN  [scanned EXCEPT !.dirty = FALSE]
    ELSE s

\* getFileInfoList with the name checked before syncFileIndex is called.
getFileInfoListChecksNameFirst(s, root, indexName) ==
    IF indexName \notin DOMAIN s.indexList
    THEN [s |-> s, outcome |-> "indexName not found", result |-> <<>>]
    ELSE [s |-> syncFileIndex(s, root), outcome |-> "ok",
          result |-> syncFileIndex(s, root).indexList[indexName].fileInfos]

\* getFileInfoList: [s, outcome, result]
getFileInfoList(s, root, indexName) ==
    LET s1 == syncFileIndex(s, root)
    IN  IF indexName \notin DOMAIN s1.indexList
        THEN [s |-> s1, outcome |-> "indexName not found", result |-> <<>>]
        ELSE [s |-> s1, outcome |-> "ok",
              result |-> s1.indexList[indexName].fileInfos]

\* A predicate over file names, as getFilteredList receives it: "equals" is
\* the closure getFilenameMatches builds (lines 257-259), "length5" a
\* caller's own predicate.
NamePredicates == {[kind |-> "length5", filename |-> <<>>]}

ApplyNamePredicate(p, name) ==
    IF p.kind = "equals" THEN name = p.filename ELSE Len(name) = 5

\* The forEach of getFilteredList with results.unshift in place of push.
RECURSIVE forEachFileInfoUnshift(_, _, _, _)
forEachFileInfoUnshift(results, fileList, filterFunction, i) ==
    IF i > Len(fileList)
    THEN results
    ELSE forEachFileInfoUnshift(
             IF ApplyNamePredicate(filterFunction, fileList[i].name)
             THEN <<fileList[i]>> \o results
             ELSE results,
             fileList, filterFunction, i + 1)

\* The fileList.forEach of getFilteredList (lines 241-245), from element i.
RECURSIVE forEachFileInfo(_, _, _, _)
forEachFileInfo(results, fileList, filterFunction, i) ==
    IF i > Len(fileList)
    THEN results
    ELSE forEachFileInfo(
             IF ApplyNamePredicate(filterFunction, fileList[i].name)
             THEN Append(results, fileList[i])
             ELSE results,
             fileList, filterFunction, i + 1)

\* getFilteredList: [s, outcome, result]
getFilteredList(s, root, indexName, filterFunction) ==
    LET s1 == syncFileIndex(s, root)
        got == getFileInfoList(s1, root, indexName)
    IN  IF got.outcome # "ok"
        THEN got
        ELSE [got EXCEPT !.result =
                 forEachFileInfo(<<>>, got.result, filterFunction, 1)]

\* getFilenameMatches: [s, outcome, result]
getFilenameMatches(s, root, indexName, filename) ==
    getFilteredList(s, root, indexName, [kind |-> "equals", filename |-> filename])

----------------------------------------------------------------------------
\* The state machine.

\* Directories whose enumeration may report an error in a behaviour.
MayFail == {"/A/d"}

\* The record of a call: rebuilt tells whether the call started a rebuild.
Call(op, args, outcome, result, after) ==
    [op |-> op, args |-> args, outcome |-> outcome, result |-> result,
     rebuilt |-> after.syncs # syncs]

\* Module load: lines 28, 35 and the two _addIndex calls of lines 266-279,
\* with the project root one of roots.
Loaded(roots) ==
    /\ LET empty == [indexList |-> << >>, dirty |-> TRUE, pending |-> {},
                     dialogs |-> 0, syncs |-> 0]
           one == _addIndex(empty, "all", AllFilter).s
           two == _addIndex(one, "css", CssFilter).s
       IN  /\ indexList = two.indexList
           /\ indexListDirty = two.dirty
           /\ pending = two.pending
           /\ dialogs = two.dialogs
           /\ syncs = two.syncs
    /\ projectRoot \in roots
    /\ unreadable \in SUBSET MayFail
    /\ lastCall = [op |-> "load", args |-> <<>>, outcome |-> "ok", result |-> <<>>,
                   rebuilt |-> FALSE]

\* The module is loaded before a project is opened.
Init == Loaded({NoRoot})

\* exports.markDirty()
MarkDirty ==
    /\ syncs < MaxSyncs
    /\ Commit(markDirty(Cur))
    /\ lastCall' = Call("markDirty", <<>>, "ok", <<>>, Cur)
    /\ UNCHANGED <<projectRoot, unreadable>>

\* A call of _addIndex after load.
AddIndex(indexName, filterFunction) ==
    LET r == _addIndex(Cur, indexName, filterFunction)
    IN  /\ r.outcome = "ok" => syncs < MaxSyncs
        /\ Commit(r.s)
        /\ lastCall' = Call("_addIndex", <<indexName, filterFunction>>, r.outcome, <<>>, r.s)
        /\ UNCHANGED <<projectRoot, unreadable>>

\* The projectRootChanged handler (lines 281-283), run when the project
\* manager has switched to newRoot.
ProjectRootChanged(newRoot) ==
    /\ projectRoot' = newRoot
    /\ Commit(syncFileIndex(Cur, newRoot))
    /\ lastCall' = Call("projectRootChanged", <<newRoot>>, "ok", <<>>,
                        syncFileIndex(Cur, newRoot))
    /\ UNCHANGED unreadable

\* exports.getFileInfoList(indexName)
GetFileInfoList(indexName) ==
    LET r == getFileInfoList(Cur, projectRoot, indexName)
    IN  /\ Commit(r.s)
        /\ lastCall' = Call("getFileInfoList", <<indexName>>, r.outcome, r.result, r.s)
        /\ UNCHANGED <<projectRoot, unreadable>>

\* exports.getFilteredList(indexName, filterFunction)
GetFilteredList(indexName, filterFunction) ==
    LET r == getFilteredList(Cur, projectRoot, indexName, filterFunction)
    IN  /\ Commit(r.s)
        /\ lastCall' = Call("getFilteredList", <<indexName, filterFunction>>,
                        r.outcome, r.result, r.s)
        /\ UNCHANGED <<projectRoot, unreadable>>

\* exports.getFilenameMatches(indexName, filename)
GetFilenameMatches(indexName, filename) ==
    LET r == getFilenameMatches(Cur, projectRoot, indexName, filename)
    IN  /\ Commit(r.s)
        /\ lastCall' = Call("getFilenameMatches", <<indexName, filename>>,
                        r.outcome, r.result, r.s)
        /\ UNCHANGED <<projectRoot, unreadable>>

\* The success callback of readEntries (lines 146-157) for request p.
ReadEntriesSuccess(p) ==
    /\ p \in pending
    /\ p.dir \notin unreadable
    /\ LET delivered == [Cur EXCEPT !.pending = @ \ {p}]
           w == forEachEntry([s |-> delivered, fileCount |-> p.fileCount],
                             Children(p.dir), 1, p.cycle)
       IN  Commit(w.s)
    /\ lastCall' = Call("readEntries success", <<p.dir>>, "ok", <<>>, Cur)
    /\ UNCHANGED <<projectRoot, unreadable>>

\* An error callback that gives the rebuild up: the lists are emptied.
ReadEntriesErrorFailsSync(p) ==
    /\ p \in pending
    /\ p.dir \in unreadable
    /\ indexList' = [n \in DOMAIN indexList |->
                       [indexList[n] EXCEPT !.fileInfos = <<>>]]
    /\ pending' = pending \ {p}
    /\ lastCall' = [op |-> "readEntries error", args |-> <<p.dir>>,
                    outcome |-> "ok", result |-> <<>>, rebuilt |-> FALSE]
    /\ UNCHANGED <<indexListDirty, dialogs, syncs, projectRoot, unreadable>>

\* The error callback of readEntries (lines 158-160) for request p.
ReadEntriesError(p) ==
    /\ p \in pending
    /\ p.dir \in unreadable
    /\ Commit([Cur EXCEPT !.pending = @ \ {p}])
    /\ lastCall' = Call("readEntries error", <<p.dir>>, "ok", <<>>, Cur)
    /\ UNCHANGED <<projectRoot, unreadable>>

FileNames == {NameXCss}

Next ==
    \/ MarkDirty
    \/ \E n \in {"css", "extra"}, f \in FilterValues : AddIndex(n, f)
    \/ \E r \in Roots \cup {NoRoot} : ProjectRootChanged(r)
    \/ \E n \in IndexNames : GetFileInfoList(n)
    \/ \E n \in IndexNames, f \in NamePredicates : GetFilteredList(n, f)
    \/ \E n \in IndexNames, fn \in FileNames : GetFilenameMatches(n, fn)
    \/ \E p \in pending : ReadEntriesSuccess(p)
    \/ \E p \in pending : ReadEntriesError(p)

Spec == Init /\ [][Next]_vars

----------------------------------------------------------------------------
\* The module used as its comments ask: nothing invalidates the indexes
\* while a walk is outstanding, and every requested enumeration is
\* delivered.

\* The delivery of some outstanding readEntries callback.
Deliver ==
    \E p \in pending : ReadEntriesSuccess(p) \/ ReadEntriesError(p)

\* Next with markDirty, _addIndex and a change of root held back while an
\* enumeration is outstanding.
QuietNext ==
    \/ pending = {} /\ MarkDirty
    \/ pending = {} /\ \E n \in {"css", "extra"}, f \in FilterValues : AddIndex(n, f)
    \/ \E r \in Roots \cup {NoRoot} :
          (pending = {} \/ r = projectRoot) /\ ProjectRootChanged(r)
    \/ \E n \in IndexNames : GetFileInfoList(n)
    \/ \E n \in IndexNames, f \in NamePredicates : GetFilteredList(n, f)
    \/ \E n \in IndexNames, fn \in FileNames : GetFilenameMatches(n, fn)
    \/ Deliver

QuietSpec == Init /\ [][QuietNext]_vars /\ WF_vars(Deliver)

\* QuietNext for one project: the root is the one the module was loaded
\* with, and the root-change handler runs as a bare syncFileIndex().
SteadyNext ==
    \/ pending = {} /\ MarkDirty
    \/ pending = {} /\ \E n \in {"css", "extra"}, f \in FilterValues : AddIndex(n, f)
    \/ ProjectRootChanged(projectRoot)
    \/ \E n \in IndexNames : GetFileInfoList(n)
    \/ \E n \in IndexNames, f \in NamePredicates : GetFilteredList(n, f)
    \/ \E n \in IndexNames, fn \in FileNames : GetFilenameMatches(n, fn)
    \/ Deliver

SteadySpec == Loaded(Roots \cup {NoRoot}) /\ [][SteadyNext]_vars /\ WF_vars(Deliver)

----------------------------------------------------------------------------
\* What a complete rebuild holds.

\* The file entries below dir that a walk reaches: an unreadable directory
\* contributes nothing.
RECURSIVE FilesBelow(_)
FilesBelow(dir) ==
    IF dir = NoRoot \/ dir \in unreadable
    THEN {}
    ELSE LET entries == Children(dir)
         IN  UNION {IF entries[i].isFile
                    THEN {entries[i]}
                    ELSE FilesBelow(entries[i].fullPath) : i \in 1..Len(entries)}

\* The paths a complete rebuild from root puts in an index with filter f.
CompletePaths(root, f) ==
    {e.fullPath : e \in {x \in FilesBelow(root) : ApplyFilter(f, x)}}

PathsOf(fileInfos) == {fileInfos[i].fullPath : i \in 1..Len(fileInfos)}

FileInfosOf(n) == indexList[n].fileInfos

----------------------------------------------------------------------------
\* Claims.

\* C1 (as stated): a list returned by getFileInfoList for a registered index
\* is a complete rebuild: it holds exactly the files of the current project
\* tree, in readable directories, that the index's filter accepts, and no
\* rebuild is in progress when it is returned.
ReturnedListIsCompleteRebuild ==
    (lastCall.op = "getFileInfoList" /\ lastCall.outcome = "ok") =>
        /\ pending = {}
        /\ PathsOf(lastCall.result) =
               CompletePaths(projectRoot, indexList[lastCall.args[1]].filterFunction)

\* C2 (as stated): when the dirty flag is false and a sync has been started,
\* no directory enumeration of that sync's walk is outstanding.
DirtyClearedOnlyAfterWalk ==
    (~indexListDirty /\ syncs > 0) => ~ \E p \in pending : p.cycle = syncs

\* C3 (as stated): directory enumerations of two different sync cycles are
\* never outstanding together.
OneSyncInFlight ==
    \A p, q \in pending : p.cycle = q.cycle

\* C4 (as stated): no index holds two records with the same fullPath.
NoDuplicateRecords ==
    \A n \in DOMAIN indexList :
        \A i, j \in 1..Len(FileInfosOf(n)) :
            i # j => FileInfosOf(n)[i].fullPath # FileInfosOf(n)[j].fullPath

\* C5 (as stated): once the first sync's walk has finished on a tree that
\* holds more files than the ceiling, the limit-exceeded notifier has been
\* invoked exactly once.
LimitExceededNotifiedOnce ==
    (syncs = 1 /\ pending = {} /\ Cardinality(FilesBelow(projectRoot)) > MaxFiles
        /\ FileInfosOf("all") # <<>>) =>
        dialogs = 1

\* C6 (as stated): after a projectRootChanged event, whatever the dirty flag
\* was, every index has been cleared and a walk of the new root started.
RootChangeRebuilds ==
    lastCall.op = "projectRootChanged" =>
        /\ \A n \in DOMAIN indexList : FileInfosOf(n) = <<>>
        /\ projectRoot # NoRoot =>
              \E p \in pending : p.dir = projectRoot /\ p.cycle = syncs

\* C7: every record held in an index satisfies that index's filter, applied
\* to an entry rebuilt from the record's name and fullPath, in every
\* reachable state.
RecordsSatisfyFilter ==
    \A n \in DOMAIN indexList :
        \A i \in 1..Len(FileInfosOf(n)) :
            ApplyFilter(indexList[n].filterFunction,
                        FileEntry(FileInfosOf(n)[i].name, FileInfosOf(n)[i].fullPath))

\* C7 witness: a walk has indexed a file the css filter rejects (m.js) and a
\* file it accepts, and the css index holds fewer records than "all".
RecordsSatisfyFilterWitness ==
    /\ \E i \in 1..Len(FileInfosOf("all")) : FileInfosOf("all")[i].name = NameMJs
    /\ FileInfosOf("css") # <<>>
    /\ Len(FileInfosOf("css")) < Len(FileInfosOf("all"))

\* C8 (as stated): _addIndex fails with the duplicate-name error when the
\* name is registered and with the invalid-argument error when the filter is
\* not callable, leaving the registry, the lists and the dirty flag as they
\* were; on success it inserts an index with an empty list and sets dirty.
AddIndexErrorsAsStated ==
    [][lastCall'.op = "_addIndex" =>
         LET n == lastCall'.args[1]
             f == lastCall'.args[2]
         IN  /\ n \in DOMAIN indexList =>
                  /\ lastCall'.outcome = "Duplicate index name"
                  /\ UNCHANGED <<indexList, indexListDirty>>
             /\ ~IsFunction(f) =>
                  /\ lastCall'.outcome = "Invalid arguments"
                  /\ UNCHANGED <<indexList, indexListDirty>>
             /\ (n \notin DOMAIN indexList /\ IsFunction(f)) =>
                  /\ lastCall'.outcome = "ok"
                  /\ DOMAIN indexList' = DOMAIN indexList \cup {n}
                  /\ indexList'[n] = [name |-> n, fileInfos |-> <<>>,
                                      filterFunction |-> f]
                  /\ \A m \in DOMAIN indexList : indexList'[m] = indexList[m]
                  /\ indexListDirty'
    ]_vars

\* C8 (amended): as C8, with the invalid-argument error raised when the
\* filter is not callable and the name is not already registered; a
\* registered name gives the duplicate-name error whatever the filter.
AddIndexContract ==
    [][lastCall'.op = "_addIndex" =>
         LET n == lastCall'.args[1]
             f == lastCall'.args[2]
         IN  /\ n \in DOMAIN indexList =>
                  /\ lastCall'.outcome = "Duplicate index name"
                  /\ UNCHANGED <<indexList, indexListDirty>>
             /\ (n \notin DOMAIN indexList /\ ~IsFunction(f)) =>
                  /\ lastCall'.outcome = "Invalid arguments"
                  /\ UNCHANGED <<indexList, indexListDirty>>
             /\ (n \notin DOMAIN indexList /\ IsFunction(f)) =>
                  /\ lastCall'.outcome = "ok"
                  /\ DOMAIN indexList' = DOMAIN indexList \cup {n}
                  /\ indexList'[n] = [name |-> n, fileInfos |-> <<>>,
                                      filterFunction |-> f]
                  /\ \A m \in DOMAIN indexList : indexList'[m] = indexList[m]
                  /\ indexListDirty'
    ]_vars

\* C8 witness: _addIndex was called with a registered name and a filter that
\* is not callable, and failed with the duplicate-name error.
AddIndexContractWitness ==
    /\ lastCall.op = "_addIndex"
    /\ lastCall.args[1] \in DOMAIN indexList
    /\ lastCall.args[2] = NotAFunction
    /\ lastCall.outcome = "Duplicate index name"

\* C9: getFileInfoList with a name that is not registered fails with
\* "indexName not found" and returns no list, after syncFileIndex has run:
\* if the registry was dirty, every list is empty, the walk of the project
\* root has been requested and dirty is false after the failed call.
UnknownIndexFailsAfterSync ==
    [][(lastCall'.op = "getFileInfoList"
          /\ lastCall'.args[1] \notin DOMAIN indexList) =>
         /\ lastCall'.outcome = "indexName not found"
         /\ lastCall'.result = <<>>
         /\ DOMAIN indexList' = DOMAIN indexList
         /\ indexListDirty =>
              /\ \A n \in DOMAIN indexList' : indexList'[n].fileInfos = <<>>
              /\ ~indexListDirty'
              /\ syncs' = syncs + 1
              /\ pending' = pending \cup
                    (IF projectRoot = NoRoot
                     THEN {}
                     ELSE {[dir |-> projectRoot, cycle |-> syncs',
                            fileCount |-> Undefined]})
    ]_vars

\* C9 witness: a getFileInfoList call on an unregistered name has failed and
\* started a rebuild whose root enumeration is outstanding.
UnknownIndexFailsAfterSyncWitness ==
    /\ lastCall.op = "getFileInfoList"
    /\ lastCall.outcome = "indexName not found"
    /\ lastCall.rebuilt
    /\ ~indexListDirty
    /\ \E p \in pending : p.dir = projectRoot /\ p.cycle = syncs

\* C10: getFilteredList returns the subsequence, in index order, of the
\* named index's records whose name satisfies the predicate, and
\* getFilenameMatches the records whose name equals the filename, all of
\* them, in index order.
FilteredListIsSubsequence ==
    /\ (lastCall.op = "getFilteredList" /\ lastCall.outcome = "ok") =>
          LET Keep(r) == ApplyNamePredicate(lastCall.args[2], r.name)
          IN  lastCall.result = SelectSeq(FileInfosOf(lastCall.args[1]), Keep)
    /\ (lastCall.op = "getFilenameMatches" /\ lastCall.outcome = "ok") =>
          LET Same(r) == r.name = lastCall.args[2]
          IN  lastCall.result = SelectSeq(FileInfosOf(lastCall.args[1]), Same)

\* C10 witness: getFilenameMatches has returned two records of the same name
\* at different paths, from an index that also holds another record.
FilteredListIsSubsequenceWitness ==
    /\ lastCall.op = "getFilenameMatches"
    /\ lastCall.outcome = "ok"
    /\ Len(lastCall.result) = 2
    /\ lastCall.result[1].fullPath # lastCall.result[2].fullPath
    /\ Len(FileInfosOf(lastCall.args[1])) = 3

\* The calls that run syncFileIndex: the root-change handler, which is a
\* bare syncFileIndex(), and the three queries.
SyncingCalls ==
    {"projectRootChanged", "getFileInfoList", "getFilteredList",
     "getFilenameMatches"}

\* C11: when the dirty flag is false, syncFileIndex and every query leave the
\* registry, every list and the dirty flag unchanged and request no
\* enumeration; so a second sync right after a first gives the same lists.
CleanSyncIsNoOp ==
    [][(lastCall'.op \in SyncingCalls /\ ~indexListDirty) =>
         /\ UNCHANGED <<indexList, indexListDirty, pending, syncs, dialogs>>
         /\ ~lastCall'.rebuilt
    ]_vars

\* C11 witness: a syncFileIndex call has run with the dirty flag false while
\* the lists held records.
CleanSyncIsNoOpWitness ==
    /\ lastCall.op = "projectRootChanged"
    /\ ~lastCall.rebuilt
    /\ ~indexListDirty
    /\ FileInfosOf("all") # <<>>

\* C12: markDirty sets the dirty flag whatever it was and changes nothing
\* else: the lists, the registry and the outstanding enumerations are as
\* before, no rebuild is started, and a second markDirty changes nothing.
MarkDirtyOnlySetsFlag ==
    [][lastCall'.op = "markDirty" =>
         /\ indexListDirty'
         /\ UNCHANGED <<indexList, pending, syncs, dialogs, projectRoot>>
         /\ LET after == [indexList |-> indexList', dirty |-> indexListDirty',
                          pending |-> pending', dialogs |-> dialogs',
                          syncs |-> syncs']
            IN  markDirty(after) = after
    ]_vars

\* C12 witness: markDirty has been called while the lists held records and
\* an enumeration was outstanding; the flag is set.
MarkDirtyOnlySetsFlagWitness ==
    /\ lastCall.op = "markDirty"
    /\ indexListDirty
    /\ FileInfosOf("all") # <<>>
    /\ pending # {}

\* C14: when syncFileIndex runs while dirty and there is no project root,
\* every list is empty afterwards, no enumeration is requested, no dialog is
\* shown, the call does not fail and the dirty flag is false.
NoRootSyncIsEmptyWalk ==
    [][(lastCall'.op \in SyncingCalls /\ indexListDirty /\ projectRoot' = NoRoot) =>
         /\ \A n \in DOMAIN indexList' : indexList'[n].fileInfos = <<>>
         /\ DOMAIN indexList' = DOMAIN indexList
         /\ pending' = pending
         /\ dialogs' = dialogs
         /\ ~indexListDirty'
         /\ (lastCall'.op = "projectRootChanged"
                \/ lastCall'.args[1] \in DOMAIN indexList) =>
              lastCall'.outcome = "ok"
    ]_vars

\* C14 witness: a second rebuild has been started by a syncFileIndex call
\* with no project root; nothing is outstanding and the flag is false.
NoRootSyncIsEmptyWalkWitness ==
    /\ lastCall.op = "projectRootChanged"
    /\ lastCall.rebuilt
    /\ projectRoot = NoRoot
    /\ syncs = 2
    /\ pending = {}
    /\ ~indexListDirty

\* The directories at and below dir, and the files below it, as the tree
\* holds them (readable or not).
RECURSIVE DirsBelow(_)
DirsBelow(dir) ==
    LET entries == Children(dir)
    IN  {dir} \cup UNION {IF entries[i].isDirectory
                          THEN DirsBelow(entries[i].fullPath)
                          ELSE {} : i \in 1..Len(entries)}

RECURSIVE AllPathsBelow(_)
AllPathsBelow(dir) ==
    LET entries == Children(dir)
    IN  UNION {IF entries[i].isFile
               THEN {entries[i].fullPath}
               ELSE AllPathsBelow(entries[i].fullPath) : i \in 1..Len(entries)}

\* The project root whose tree holds dir.
RootAbove(dir) == CHOOSE r \in Roots : dir \in DirsBelow(r)

\* C13: when the enumeration of a subdirectory reports an error the sync
\* does not fail: the error callback leaves the lists, the dirty flag and
\* the other outstanding enumerations as they are, and when it ends the
\* walk of the first rebuild, every index holds the accepted files of the
\* rest of the tree, none of the files below the failed directory, and the
\* dirty flag is false.
SubdirectoryErrorSkipped ==
    [][lastCall'.op = "readEntries error" =>
         LET failed == lastCall'.args[1]
         IN  /\ UNCHANGED <<indexList, indexListDirty, syncs, dialogs>>
             /\ pending' \subseteq pending
             /\ \A p \in pending \ pending' : p.dir = failed
             /\ (syncs' = 1 /\ pending' = {} /\ ~indexListDirty') =>
                   \A n \in DOMAIN indexList' :
                      /\ PathsOf(indexList'[n].fileInfos) =
                            CompletePaths(RootAbove(failed),
                                          indexList'[n].filterFunction)
                      /\ PathsOf(indexList'[n].fileInfos)
                            \cap AllPathsBelow(failed) = {}
    ]_vars

\* C13 witness: the error callback of /A/d has ended the walk of the first
\* rebuild; the sibling file /A/x.css is indexed and the flag is false.
SubdirectoryErrorSkippedWitness ==
    /\ lastCall.op = "readEntries error"
    /\ syncs = 1
    /\ pending = {}
    /\ ~indexListDirty
    /\ PathsOf(FileInfosOf("all")) = {"/A/x.css"}

\* C15 (as stated): after a completed sync the records of each index are in
\* depth-first order: where a directory lists a subdirectory D before a file
\* f, every record of a file below D precedes the record of f.
DepthFirstOrder ==
    (syncs = 1 /\ pending = {} /\ ~indexListDirty) =>
        \A n \in DOMAIN indexList :
            \A dir \in UNION {DirsBelow(r) : r \in Roots} :
                \A i, j \in 1..Len(Children(dir)) :
                    (i < j /\ Children(dir)[i].isDirectory /\ Children(dir)[j].isFile) =>
                        \A a, b \in 1..Len(FileInfosOf(n)) :
                            (/\ FileInfosOf(n)[a].fullPath
                                   \in AllPathsBelow(Children(dir)[i].fullPath)
                             /\ FileInfosOf(n)[b].fullPath = Children(dir)[j].fullPath)
                            => a < b

\* Whether a is b with some elements left out.
RECURSIVE IsSubsequence(_, _)
IsSubsequence(a, b) ==
    IF a = <<>> THEN TRUE
    ELSE IF b = <<>> THEN FALSE
    ELSE IF Head(a) = Head(b) THEN IsSubsequence(Tail(a), Tail(b))
    ELSE IsSubsequence(a, Tail(b))

\* C17: in every reachable state the records of every index are records of
\* index "all", in the same relative order.
EveryIndexWithinAll ==
    \A n \in DOMAIN indexList :
        IsSubsequence(FileInfosOf(n), FileInfosOf("all"))

\* C17 witness: in the middle of two overlapping walks the css index holds a
\* record and "all" holds more records than it.
EveryIndexWithinAllWitness ==
    /\ \E p, q \in pending : p.cycle # q.cycle
    /\ FileInfosOf("css") # <<>>
    /\ Len(FileInfosOf("css")) < Len(FileInfosOf("all"))

\* Index n holds, each once, the files a complete walk from root gives it.
HoldsCompleteWalk(n, root) ==
    /\ PathsOf(FileInfosOf(n)) = CompletePaths(root, indexList[n].filterFunction)
    /\ Cardinality(PathsOf(FileInfosOf(n))) = Len(FileInfosOf(n))

\* C16: with the tree unchanged, once a rebuild has completed every index
\* holds what a fresh full walk gives it, whether it was registered before
\* the first rebuild or after it: an index registered after a completed
\* rebuild gets the fresh-walk list from the next rebuild, and the indexes
\* that existed before hold the content they held before the registration.
RegisteredIndexRebuilt ==
    (syncs >= 1 /\ ~indexListDirty /\ pending = {}) =>
        \A n \in DOMAIN indexList : HoldsCompleteWalk(n, projectRoot)

\* C16 witness: index "extra" was registered after the first rebuild, the
\* second rebuild has completed, and "extra" holds records.
RegisteredIndexRebuiltWitness ==
    /\ "extra" \in DOMAIN indexList
    /\ syncs = 2
    /\ ~indexListDirty
    /\ pending = {}
    /\ FileInfosOf("extra") # <<>>
    /\ Len(FileInfosOf("all")) = 3

\* C18: when every requested enumeration is delivered and nothing
\* invalidates the indexes during the walk, a started walk of root r reaches
\* a state with no enumeration outstanding in which every index holds, each
\* once, the files of the readable part of r's tree that its filter accepts.
SyncFinishes ==
    \A r \in Roots :
        (pending # {} /\ projectRoot = r) ~>
            (pending = {} /\ \A n \in DOMAIN indexList : HoldsCompleteWalk(n, r))

\* C18 witness: the walk of /A, subdirectory included, has finished.
SyncFinishesWitness ==
    /\ syncs >= 1
    /\ pending = {}
    /\ projectRoot = "/A"
    /\ Len(FileInfosOf("all")) = 3
    /\ \A n \in DOMAIN indexList : HoldsCompleteWalk(n, "/A")
====
